---- MODULE Spec2Model ----
(***************************************************************************)
(* FillGhost injection controller (src/fillghost.go).                      *)
(*                                                                         *)
(* Caller threads run Start() and Stop() statement by statement under the  *)
(* controller mutex; every `go fg.loop()` launches a loop goroutine that   *)
(* runs loop() and injectOne() statement by statement.  Channels are       *)
(* numbered in allocation order; `closed` is the set of closed channels.   *)
(* The session (cipher, write sequence counter, wire) belongs to *Conn,    *)
(* whose methods are not part of fillghost.go.                             *)
(***************************************************************************)
EXTENDS Integers, Sequences, FiniteSets, TLC

\* ------------------------------------------------------------------ bounds
NumThreads == 2
MaxRuns == 2
MaxWire == 2
MaxCfgLen == 1
IntBits == 18        \* width of Go's int, scaled down from 64 bits

Threads == 1..NumThreads
Runs == 1..MaxRuns
NoThread == 0
NoChan == 0
LenValues == 0..MaxCfgLen
LenFieldMod == 65536 \* header[3], header[4]: two bytes hold the length
IntMax == 2^(IntBits - 1) - 1
\* int arithmetic wraps in two's complement
Wrap(x) == ((x + 2^(IntBits - 1)) % 2^IntBits) - 2^(IntBits - 1)
DurValues == {0, 1}

VARIABLES
    cfg,          \* FillGhostConfig: MinLen, MaxLen, Interval, InitialDelay
    panicked,     \* the process has crashed on a runtime panic
    active,       \* fg.active
    stopCh,       \* fg.stopCh
    stoppedCh,    \* fg.stoppedCh
    mu,           \* fg.mu: the thread holding it, or NoThread
    nextCh,       \* next channel make() returns
    closed,       \* channels that have been closed
    aeadPresent,  \* c.ExportWriteAEAD() # nil
    overhead,     \* bytes the connection's AEAD adds to a plaintext (its tag)
    seq,          \* the connection's write sequence counter
    wire,         \* records put on the transport, in order
    pc,           \* per caller thread: position in Start()/Stop()
    ret,          \* per caller thread: the value its call in progress is about to return
    launched,     \* number of `go fg.loop()` executed
    lpc,          \* per loop goroutine: position in loop()/injectOne()
    ldefer,       \* per loop goroutine: channel captured by `defer close(...)`
    lseq,         \* per loop goroutine: injectOne's local seq
    lL,           \* per loop goroutine: injectOne's local L
    window,       \* history: "new", "open" (since a Start launched), "closed" (since a Stop returned)
    wins,         \* history: successful Start() returns since the last Stop() return
    snap,         \* history: the controller as the call holding the mutex found it
    cancelAt,     \* history: the loop's phase, Len(wire) and seq when the Stop() in progress closed stopCh
    runChans      \* history: per run, the <<stopCh, stoppedCh>> its Start() allocated

ctrl == <<active, stopCh, stoppedCh, mu>>
chans == <<nextCh, closed>>
sess == <<aeadPresent, overhead, seq, wire>>
callers == <<pc, ret>>
loops == <<launched, lpc, ldefer, lseq, lL>>
hist == <<window, wins, snap, cancelAt, runChans>>
env == <<cfg, panicked>>
vars == <<env, ctrl, chans, sess, callers, loops, hist>>

\* positions of a loop goroutine inside injectOne
InjectPcs == {"aead", "seq", "len", "payload", "inject", "inc"}

\* a loop goroutine that has been launched and has not returned
Alive(r) == lpc[r] \notin {"none", "done"}

\* where the loop goroutines that select on channel ch are: waiting out the
\* initial delay (or not yet there), inside injectOne, elsewhere, or returned
LoopPhase(ch) ==
    LET rs == {r \in Runs : Alive(r) /\ runChans[r][1] = ch}
    IN IF rs = {} THEN "exited"
       ELSE IF \E r \in rs : lpc[r] \in InjectPcs THEN "inject"
       ELSE IF cfg.InitialDelay > 0 /\ \E r \in rs : lpc[r] \in {"enter", "initwait"} THEN "delay"
       ELSE "other"

NoCancel == [phase |-> "none", wireLen |-> 0, seq |-> 0]

\* ------------------------------------------------------------ construction
NoSnap == [active |-> FALSE, stopCh |-> NoChan, stoppedCh |-> NoChan,
           nextCh |-> 0, closed |-> {}, launched |-> 0]

Snapshot == [active |-> active, stopCh |-> stopCh, stoppedCh |-> stoppedCh,
             nextCh |-> nextCh, closed |-> closed, launched |-> launched]

FillGhostConfig == [MinLen : LenValues, MaxLen : LenValues, Interval : DurValues, InitialDelay : DurValues]

NewFillGhostController ==
    /\ active = FALSE
    /\ stopCh = 1
    /\ stoppedCh = 2
    /\ nextCh = 3
    /\ closed = {}
    /\ mu = NoThread

\* everything but the configuration and the session's cipher
Constructed ==
    /\ panicked = FALSE
    /\ NewFillGhostController
    /\ seq = 0
    /\ wire = <<>>
    /\ pc = [t \in Threads |-> "idle"]
    /\ ret = [t \in Threads |-> "none"]
    /\ launched = 0
    /\ lpc = [r \in Runs |-> "none"]
    /\ ldefer = [r \in Runs |-> NoChan]
    /\ lseq = [r \in Runs |-> 0]
    /\ lL = [r \in Runs |-> 0]
    /\ window = "new"
    /\ wins = 0
    /\ snap = NoSnap
    /\ cancelAt = NoCancel
    /\ runChans = [r \in Runs |-> <<NoChan, NoChan>>]

\* a TLS 1.3 AEAD adds a 16-byte tag; the CCM_8 suite adds 8
TagOverheads == {8, 16}

\* lengths at the edges of what the constructor accepts: negative, zero,
\* small, the largest payloads around a 16-bit record length, and the
\* largest int
RecLenPairs ==
    {<<v, v>> : v \in {-1, 0, MaxCfgLen} \cup {LenFieldMod - 1 - o : o \in TagOverheads}}
    \cup {<<0, MaxCfgLen>>, <<MaxCfgLen, 0>>, <<0, IntMax>>, <<-1, IntMax>>}

RecConfig ==
    {[MinLen |-> p[1], MaxLen |-> p[2], Interval |-> i, InitialDelay |-> d] :
        p \in RecLenPairs, i \in DurValues, d \in DurValues}

\* construction over any configuration and any negotiated cipher
RecInit ==
    /\ cfg \in RecConfig
    /\ aeadPresent \in BOOLEAN
    /\ overhead \in TagOverheads
    /\ Constructed

Init ==
    /\ cfg \in FillGhostConfig
    /\ aeadPresent \in BOOLEAN
    /\ overhead = 16
    /\ Constructed

\* ------------------------------------------------------------------ Start()
\* mutant of StartLock: Start() enters without taking the mutex
StartLock_NoMutex(t) ==
    /\ ~panicked
    /\ pc[t] = "idle"
    /\ launched < MaxRuns
    /\ mu' = t
    /\ pc' = [pc EXCEPT ![t] = "start_check"]
    /\ snap' = Snapshot
    /\ UNCHANGED <<env, active, stopCh, stoppedCh, chans, sess, ret, loops, window, wins, cancelAt, runChans>>

\* line 41: fg.mu.Lock()
StartLock(t) ==
    /\ ~panicked
    /\ pc[t] = "idle"
    /\ launched < MaxRuns
    /\ mu = NoThread
    /\ mu' = t
    /\ pc' = [pc EXCEPT ![t] = "start_check"]
    /\ snap' = Snapshot
    /\ UNCHANGED <<env, active, stopCh, stoppedCh, chans, sess, ret, loops, window, wins, cancelAt, runChans>>

\* mutant of StartCheck: the active test is missing
StartCheck_IgnoreActive(t) ==
    /\ ~panicked
    /\ pc[t] = "start_check"
    /\ pc' = [pc EXCEPT ![t] = "start_mk_stop"]
    /\ UNCHANGED <<env, ctrl, chans, sess, ret, loops, hist>>

\* lines 43-45: if fg.active { return errors.New("already running") }
StartCheck(t) ==
    /\ ~panicked
    /\ pc[t] = "start_check"
    /\ IF active
         THEN /\ pc' = [pc EXCEPT ![t] = "start_unlock"]
              /\ ret' = [ret EXCEPT ![t] = "already"]
         ELSE /\ pc' = [pc EXCEPT ![t] = "start_mk_stop"]
              /\ ret' = ret
    /\ UNCHANGED <<env, ctrl, chans, sess, loops, hist>>

\* mutant of StartMakeStop: the cancellation channel is not re-made
StartMakeStop_Reuse(t) ==
    /\ ~panicked
    /\ pc[t] = "start_mk_stop"
    /\ pc' = [pc EXCEPT ![t] = "start_mk_stopped"]
    /\ UNCHANGED <<env, ctrl, chans, sess, ret, loops, hist>>

\* line 46: fg.stopCh = make(chan struct{})
StartMakeStop(t) ==
    /\ ~panicked
    /\ pc[t] = "start_mk_stop"
    /\ stopCh' = nextCh
    /\ nextCh' = nextCh + 1
    /\ pc' = [pc EXCEPT ![t] = "start_mk_stopped"]
    /\ UNCHANGED <<env, active, stoppedCh, mu, closed, sess, ret, loops, hist>>

\* mutant of StartMakeStopped: the completion channel is not re-made
StartMakeStopped_Reuse(t) ==
    /\ ~panicked
    /\ pc[t] = "start_mk_stopped"
    /\ pc' = [pc EXCEPT ![t] = "start_go"]
    /\ UNCHANGED <<env, ctrl, chans, sess, ret, loops, hist>>

\* line 47: fg.stoppedCh = make(chan struct{})
StartMakeStopped(t) ==
    /\ ~panicked
    /\ pc[t] = "start_mk_stopped"
    /\ stoppedCh' = nextCh
    /\ nextCh' = nextCh + 1
    /\ pc' = [pc EXCEPT ![t] = "start_go"]
    /\ UNCHANGED <<env, active, stopCh, mu, closed, sess, ret, loops, hist>>

\* line 48: go fg.loop()
StartGo(t) ==
    /\ ~panicked
    /\ pc[t] = "start_go"
    /\ launched' = launched + 1
    /\ lpc' = [lpc EXCEPT ![launched + 1] = "enter"]
    /\ pc' = [pc EXCEPT ![t] = "start_set_active"]
    /\ window' = "open"
    /\ runChans' = [runChans EXCEPT ![launched + 1] = <<stopCh, stoppedCh>>]
    /\ UNCHANGED <<env, ctrl, chans, sess, ret, ldefer, lseq, lL, wins, snap, cancelAt>>

\* lines 49-50: fg.active = true; return nil
StartSetActive(t) ==
    /\ ~panicked
    /\ pc[t] = "start_set_active"
    /\ active' = TRUE
    /\ pc' = [pc EXCEPT ![t] = "start_unlock"]
    /\ ret' = [ret EXCEPT ![t] = "ok"]
    /\ UNCHANGED <<env, stopCh, stoppedCh, mu, chans, sess, loops, hist>>

\* line 42: the deferred fg.mu.Unlock(), and the return to the caller
StartReturn(t) ==
    /\ ~panicked
    /\ pc[t] = "start_unlock"
    /\ mu' = NoThread
    /\ pc' = [pc EXCEPT ![t] = "idle"]
    /\ ret' = [ret EXCEPT ![t] = "none"]
    /\ wins' = IF ret[t] = "ok" THEN wins + 1 ELSE wins
    /\ snap' = NoSnap
    /\ UNCHANGED <<env, active, stopCh, stoppedCh, chans, sess, loops, window, cancelAt, runChans>>

\* ------------------------------------------------------------------- Stop()
\* close(ch): closing a closed channel panics
Close(ch) ==
    IF ch \in closed
      THEN /\ panicked' = TRUE
           /\ closed' = closed
      ELSE /\ panicked' = FALSE
           /\ closed' = closed \cup {ch}

\* line 55: fg.mu.Lock()
StopLock(t) ==
    /\ ~panicked
    /\ pc[t] = "idle"
    /\ mu = NoThread
    /\ mu' = t
    /\ pc' = [pc EXCEPT ![t] = "stop_check"]
    /\ snap' = Snapshot
    /\ UNCHANGED <<env, active, stopCh, stoppedCh, chans, sess, ret, loops, window, wins, cancelAt, runChans>>

\* mutant of StopCheck: the active test is missing
StopCheck_IgnoreActive(t) ==
    /\ ~panicked
    /\ pc[t] = "stop_check"
    /\ pc' = [pc EXCEPT ![t] = "stop_close"]
    /\ UNCHANGED <<env, ctrl, chans, sess, ret, loops, hist>>

\* line 57: if fg.active {
StopCheck(t) ==
    /\ ~panicked
    /\ pc[t] = "stop_check"
    /\ IF active
         THEN /\ pc' = [pc EXCEPT ![t] = "stop_close"]
              /\ ret' = ret
         ELSE /\ pc' = [pc EXCEPT ![t] = "stop_unlock"]
              /\ ret' = [ret EXCEPT ![t] = "noop"]
    /\ UNCHANGED <<env, ctrl, chans, sess, loops, hist>>

\* line 58: close(fg.stopCh)
StopClose(t) ==
    /\ ~panicked
    /\ pc[t] = "stop_close"
    /\ Close(stopCh)
    /\ pc' = [pc EXCEPT ![t] = "stop_wait"]
    /\ cancelAt' = [phase |-> LoopPhase(stopCh), wireLen |-> Len(wire), seq |-> seq]
    /\ UNCHANGED <<cfg, ctrl, nextCh, sess, ret, loops, window, wins, snap, runChans>>

\* mutant of StopWait: Stop() does not wait for the completion channel
StopWait_NoWait(t) ==
    /\ ~panicked
    /\ pc[t] = "stop_wait"
    /\ pc' = [pc EXCEPT ![t] = "stop_clear"]
    /\ UNCHANGED <<env, ctrl, chans, sess, ret, loops, hist>>

\* line 59: <-fg.stoppedCh
StopWait(t) ==
    /\ ~panicked
    /\ pc[t] = "stop_wait"
    /\ stoppedCh \in closed
    /\ pc' = [pc EXCEPT ![t] = "stop_clear"]
    /\ UNCHANGED <<env, ctrl, chans, sess, ret, loops, hist>>

\* line 60: fg.active = false
StopClear(t) ==
    /\ ~panicked
    /\ pc[t] = "stop_clear"
    /\ active' = FALSE
    /\ pc' = [pc EXCEPT ![t] = "stop_unlock"]
    /\ ret' = [ret EXCEPT ![t] = "stopped"]
    /\ UNCHANGED <<env, stopCh, stoppedCh, mu, chans, sess, loops, hist>>

\* line 56: the deferred fg.mu.Unlock(), and the return to the caller
StopReturn(t) ==
    /\ ~panicked
    /\ pc[t] = "stop_unlock"
    /\ mu' = NoThread
    /\ pc' = [pc EXCEPT ![t] = "idle"]
    /\ window' = "closed"
    /\ ret' = [ret EXCEPT ![t] = "none"]
    /\ wins' = 0
    /\ snap' = NoSnap
    /\ cancelAt' = NoCancel
    /\ UNCHANGED <<env, active, stopCh, stoppedCh, chans, sess, loops, runChans>>

\* ------------------------------------------------------------------- loop()
\* lines 66-67: defer close(fg.stoppedCh) evaluates fg.stoppedCh now;
\* then if fg.cfg.InitialDelay > 0 enters the first select
LoopEnter(r) ==
    /\ ~panicked
    /\ lpc[r] = "enter"
    /\ ldefer' = [ldefer EXCEPT ![r] = stoppedCh]
    /\ lpc' = [lpc EXCEPT ![r] = IF cfg.InitialDelay > 0 THEN "initwait" ELSE "top"]
    /\ UNCHANGED <<env, ctrl, chans, sess, callers, launched, lseq, lL, hist>>

\* mutant of LoopInitElapsed: after the delay the loop injects before it
\* looks at the cancellation channel
LoopInitElapsed_SkipTop(r) ==
    /\ ~panicked
    /\ lpc[r] = "initwait"
    /\ lpc' = [lpc EXCEPT ![r] = "aead"]
    /\ UNCHANGED <<env, ctrl, chans, sess, callers, launched, ldefer, lseq, lL, hist>>

\* line 69: case <-time.After(fg.cfg.InitialDelay):
LoopInitElapsed(r) ==
    /\ ~panicked
    /\ lpc[r] = "initwait"
    /\ lpc' = [lpc EXCEPT ![r] = "top"]
    /\ UNCHANGED <<env, ctrl, chans, sess, callers, launched, ldefer, lseq, lL, hist>>

\* lines 70-71: case <-fg.stopCh: return
LoopInitCancelled(r) ==
    /\ ~panicked
    /\ lpc[r] = "initwait"
    /\ stopCh \in closed
    /\ lpc' = [lpc EXCEPT ![r] = "exit"]
    /\ UNCHANGED <<env, ctrl, chans, sess, callers, launched, ldefer, lseq, lL, hist>>

\* mutant of LoopTop: the loop does not poll the cancellation channel
LoopTop_IgnoreStop(r) ==
    /\ ~panicked
    /\ lpc[r] = "top"
    /\ lpc' = [lpc EXCEPT ![r] = "aead"]
    /\ UNCHANGED <<env, ctrl, chans, sess, callers, launched, ldefer, lseq, lL, hist>>

\* lines 75-79: select { case <-fg.stopCh: return; default: }
LoopTop(r) ==
    /\ ~panicked
    /\ lpc[r] = "top"
    /\ lpc' = [lpc EXCEPT ![r] = IF stopCh \in closed THEN "exit" ELSE "aead"]
    /\ UNCHANGED <<env, ctrl, chans, sess, callers, launched, ldefer, lseq, lL, hist>>

\* line 87: case <-time.After(fg.cfg.Interval):
LoopIntervalElapsed(r) ==
    /\ ~panicked
    /\ lpc[r] = "intwait"
    /\ lpc' = [lpc EXCEPT ![r] = "top"]
    /\ UNCHANGED <<env, ctrl, chans, sess, callers, launched, ldefer, lseq, lL, hist>>

\* lines 88-89: case <-fg.stopCh: return
LoopIntervalCancelled(r) ==
    /\ ~panicked
    /\ lpc[r] = "intwait"
    /\ stopCh \in closed
    /\ lpc' = [lpc EXCEPT ![r] = "exit"]
    /\ UNCHANGED <<env, ctrl, chans, sess, callers, launched, ldefer, lseq, lL, hist>>

\* mutant of LoopExit: the loop returns without the deferred close
LoopExit_NoClose(r) ==
    /\ ~panicked
    /\ lpc[r] = "exit"
    /\ lpc' = [lpc EXCEPT ![r] = "done"]
    /\ ldefer' = [ldefer EXCEPT ![r] = NoChan]
    /\ UNCHANGED <<env, ctrl, chans, sess, callers, launched, lseq, lL, hist>>

\* line 66, on return: the deferred close of the channel captured at entry
LoopExit(r) ==
    /\ ~panicked
    /\ lpc[r] = "exit"
    /\ Close(ldefer[r])
    /\ lpc' = [lpc EXCEPT ![r] = "done"]
    /\ ldefer' = [ldefer EXCEPT ![r] = NoChan]
    /\ UNCHANGED <<cfg, ctrl, nextCh, sess, callers, launched, lseq, lL, hist>>

\* -------------------------------------------------------------- injectOne()
\* cryptoRandInt(min, max): the set of results (value, error) it can return;
\* rand.Int panics when its bound is not positive
cryptoRandInt(min, max) ==
    IF min = max THEN {[val |-> min, err |-> "nil"]}
    ELSE IF min > max THEN {[val |-> 0, err |-> "minmax"]}
    ELSE LET diff == Wrap(max - min + 1)
         IN IF diff <= 0 THEN {[val |-> 0, err |-> "panic"]}
            ELSE {[val |-> n + min, err |-> "nil"] : n \in 0..(diff - 1)}
                 \cup {[val |-> 0, err |-> "rand"]}

\* mutant of InjAEAD: the loop retries after an injectOne error
InjAEAD_Retry(r) ==
    /\ ~panicked
    /\ lpc[r] = "aead"
    /\ lpc' = [lpc EXCEPT ![r] = IF aeadPresent THEN "seq" ELSE "top"]
    /\ UNCHANGED <<env, ctrl, chans, sess, callers, launched, ldefer, lseq, lL, hist>>

\* lines 97-100: aead := fg.c.ExportWriteAEAD(); nil is an error, and loop()
\* returns on any injectOne error (lines 80-84)
InjAEAD(r) ==
    /\ ~panicked
    /\ lpc[r] = "aead"
    /\ lpc' = [lpc EXCEPT ![r] = IF aeadPresent THEN "seq" ELSE "exit"]
    /\ UNCHANGED <<env, ctrl, chans, sess, callers, launched, ldefer, lseq, lL, hist>>

\* line 101: seq := fg.c.ExportWriteSeq()
InjSeq(r) ==
    /\ ~panicked
    /\ lpc[r] = "seq"
    /\ lseq' = [lseq EXCEPT ![r] = seq]
    /\ lpc' = [lpc EXCEPT ![r] = "len"]
    /\ UNCHANGED <<env, ctrl, chans, sess, callers, launched, ldefer, lL, hist>>

\* lines 104-107: L, err := cryptoRandInt(fg.cfg.MinLen, fg.cfg.MaxLen)
InjLen(r) ==
    /\ lpc[r] = "len"
    /\ ~panicked
    /\ \E o \in cryptoRandInt(cfg.MinLen, cfg.MaxLen) :
         IF o.err = "panic"
           THEN /\ panicked' = TRUE
                /\ UNCHANGED <<lpc, lL, lseq>>
         ELSE IF o.err # "nil"
           THEN /\ lpc' = [lpc EXCEPT ![r] = "exit"]
                /\ lseq' = [lseq EXCEPT ![r] = 0]
                /\ UNCHANGED <<panicked, lL>>
           ELSE /\ lpc' = [lpc EXCEPT ![r] = "payload"]
                /\ lL' = [lL EXCEPT ![r] = o.val]
                /\ UNCHANGED <<panicked, lseq>>
    /\ UNCHANGED <<cfg, ctrl, chans, sess, callers, launched, ldefer, hist>>

\* lines 108-112: payload := make([]byte, L) panics on a negative L;
\* rand.Read(payload) may fail
InjPayload(r) ==
    /\ ~panicked
    /\ lpc[r] = "payload"
    /\ IF lL[r] < 0
         THEN /\ panicked' = TRUE
              /\ UNCHANGED <<lpc, lL, lseq>>
         ELSE /\ panicked' = FALSE
              /\ \/ /\ lpc' = [lpc EXCEPT ![r] = "inject"]
                    /\ UNCHANGED <<lL, lseq>>
                 \/ /\ lpc' = [lpc EXCEPT ![r] = "exit"]
                    /\ lL' = [lL EXCEPT ![r] = 0]
                    /\ lseq' = [lseq EXCEPT ![r] = 0]
    /\ UNCHANGED <<cfg, ctrl, chans, sess, callers, launched, ldefer, hist>>

\* line 115: header := []byte{0x17, 0x03, 0x03, 0, 0}
Header0 == <<23, 3, 3, 0, 0>>

\* line 114: padded := append(payload, 0x17): L random bytes and the type byte
Padded(r) == [len |-> lL[r] + 1, last |-> 23]

\* aead.Seal(dst, nonce, plaintext, additionalData): the ciphertext is the
\* plaintext plus the tag, bound to the nonce and the additional data
Seal(nonce, plaintext, aad) ==
    [nonce |-> nonce, aad |-> aad, plain |-> plaintext, len |-> plaintext.len + overhead]

\* the inverse of Seal under the same key: authentication fails unless the
\* nonce and the additional data are the ones the ciphertext was sealed with
Open(nonce, ciphertext, aad) ==
    IF ciphertext.nonce = nonce /\ ciphertext.aad = aad
      THEN [ok |-> TRUE, plain |-> ciphertext.plain]
      ELSE [ok |-> FALSE, plain |-> [len |-> 0, last |-> 0]]

\* lines 116-120: ciphertext := aead.Seal(nil, seq[:], padded, header[:5]);
\* header[3] = byte(ln >> 8); header[4] = byte(ln); record = header ++ ciphertext
Record(r) ==
    LET ciphertext == Seal(lseq[r], Padded(r), Header0)
        ln == ciphertext.len
    IN [header |-> <<23, 3, 3, (ln \div 256) % 256, ln % 256>>,
        ciphertext |-> ciphertext]

\* the length a receiver reads from bytes 3..4 of a record header
DeclaredLen(header) == (header[4] * 256 + header[5]) % LenFieldMod

\* lines 114-120: the record sealed with the nonce read at line 101, as the
\* transport sees it
FillerRecord(r) == [kind |-> "filler", nonce |-> lseq[r]]

\* lines 114-124: seal, build the record and FillGhostInjectRawRecord(record),
\* which puts it on the transport or fails (it fails once the wire is full)
InjWrite(r) ==
    /\ ~panicked
    /\ lpc[r] = "inject"
    /\ \/ /\ Len(wire) < MaxWire
          /\ wire' = Append(wire, FillerRecord(r))
          /\ lpc' = [lpc EXCEPT ![r] = "inc"]
       \/ /\ wire' = wire
          /\ lpc' = [lpc EXCEPT ![r] = "exit"]
    /\ lseq' = [lseq EXCEPT ![r] = 0]
    /\ lL' = [lL EXCEPT ![r] = 0]
    /\ UNCHANGED <<env, ctrl, chans, aeadPresent, overhead, seq, callers, launched, ldefer, hist>>

\* mutant of InjInc: the sequence counter is not advanced after an injection
InjInc_Skip(r) ==
    /\ ~panicked
    /\ lpc[r] = "inc"
    /\ lpc' = [lpc EXCEPT ![r] = IF cfg.Interval > 0 THEN "intwait" ELSE "top"]
    /\ UNCHANGED <<env, ctrl, chans, sess, callers, launched, ldefer, lseq, lL, hist>>

\* lines 126-127, 81, 85: fg.c.FillGhostIncWriteSeq(); return nil; then the
\* loop enters the interval select when fg.cfg.Interval > 0
InjInc(r) ==
    /\ ~panicked
    /\ lpc[r] = "inc"
    /\ seq' = seq + 1
    /\ lpc' = [lpc EXCEPT ![r] = IF cfg.Interval > 0 THEN "intwait" ELSE "top"]
    /\ UNCHANGED <<env, ctrl, chans, aeadPresent, overhead, wire, callers, launched, ldefer, lseq, lL, hist>>

\* ----------------------------------------------------------- the connection
\* a genuine application write of the connection: seals one record with the
\* current write sequence value, puts it on the transport and advances the counter
GenuineWrite ==
    /\ ~panicked
    /\ aeadPresent
    /\ Len(wire) < MaxWire
    /\ wire' = Append(wire, [kind |-> "genuine", nonce |-> seq])
    /\ seq' = seq + 1
    /\ UNCHANGED <<env, ctrl, chans, aeadPresent, overhead, callers, loops, hist>>

\* ------------------------------------------------------------ specification
CallerStep(t) ==
    \/ StartLock(t) \/ StartCheck(t) \/ StartMakeStop(t) \/ StartMakeStopped(t)
    \/ StartGo(t) \/ StartSetActive(t) \/ StartReturn(t)
    \/ StopLock(t) \/ StopCheck(t) \/ StopClose(t) \/ StopWait(t)
    \/ StopClear(t) \/ StopReturn(t)

LoopStep(r) ==
    \/ LoopEnter(r) \/ LoopInitElapsed(r) \/ LoopInitCancelled(r) \/ LoopTop(r)
    \/ LoopIntervalElapsed(r) \/ LoopIntervalCancelled(r) \/ LoopExit(r)
    \/ InjAEAD(r) \/ InjSeq(r) \/ InjLen(r) \/ InjPayload(r) \/ InjWrite(r) \/ InjInc(r)

Next ==
    \/ \E t \in Threads : CallerStep(t)
    \/ \E r \in Runs : LoopStep(r)
    \/ GenuineWrite

Spec == Init /\ [][Next]_vars

\* Fairness: the Go scheduler keeps running every runnable goroutine (a loop
\* goroutine, a caller inside Start()/Stop()) and timers fire; callers are
\* free never to call Start() or Stop() again.
InCallStep(t) ==
    \/ StartCheck(t) \/ StartMakeStop(t) \/ StartMakeStopped(t)
    \/ StartGo(t) \/ StartSetActive(t) \/ StartReturn(t)
    \/ StopCheck(t) \/ StopClose(t) \/ StopWait(t) \/ StopClear(t) \/ StopReturn(t)

\* The lifecycle on its own: the connection makes no genuine write, which
\* touches only seq and wire.
LiveNext ==
    \/ \E t \in Threads : CallerStep(t)
    \/ \E r \in Runs : LoopStep(r)

LiveSpec ==
    /\ Init
    /\ [][LiveNext]_vars
    /\ \A t \in Threads : WF_vars(InCallStep(t))
    /\ \A r \in Runs : WF_vars(LoopStep(r))

\* the lifecycle over the edge configurations and both tag lengths
RecSpec == RecInit /\ [][LiveNext]_vars

\* ------------------------------------------------------------------ helpers
StartPcs == {"start_check", "start_mk_stop", "start_mk_stopped", "start_go",
             "start_set_active", "start_unlock"}
StopPcs == {"stop_check", "stop_close", "stop_wait", "stop_clear", "stop_unlock"}

\* no loop goroutine is inside injectOne
Quiescent == \A r \in Runs : lpc[r] \notin InjectPcs

NumKind(k) == Cardinality({i \in 1..Len(wire) : wire[i].kind = k})

\* this step puts a filler record on the transport
FillerEmitted ==
    /\ Len(wire') = Len(wire) + 1
    /\ wire'[Len(wire')].kind = "filler"

\* this step is a loop goroutine's call of FillGhostInjectRawRecord (line 122),
\* whether the transport takes the record or fails
RecordHanded == \E r \in Runs : lpc[r] = "inject" /\ lpc'[r] # "inject"

\* ------------------------------------------------------------------- claims

\* C1: no filler record is handed to FillGhostInjectRawRecord after a Stop()
\* has returned and before the next successful Start() has launched its run,
\* nor between construction and the first successful Start(): every call of
\* FillGhostInjectRawRecord and every emission happens while the injection
\* window is open.
C1_NoFillerOutsideWindow == [][(RecordHanded \/ FillerEmitted) => window = "open"]_vars

\* C1 witness: a run emitted a filler record, Stop() has returned, and the
\* transport could still take another record.
C1_Witness ==
    /\ window = "closed"
    /\ NumKind("filler") >= 1
    /\ Len(wire) < MaxWire
    /\ aeadPresent

\* C2 (as claimed): with the mutex free, active holds exactly when a loop
\* goroutine is alive, also after the loop has returned by itself.
C2_ActiveIffLoopAlive ==
    mu = NoThread => (active <=> \E r \in Runs : Alive(r))

\* C3: a Start() that finds the controller Idle (active = FALSE) never takes
\* the error path and never waits; when it returns it returns success, active
\* is TRUE, both channels were made during this call (distinct, never used
\* before, the cancellation one open), and exactly one loop was launched.
C3_StartWhileIdle ==
    \A t \in Threads :
        (pc[t] \in StartPcs /\ ~snap.active) =>
            /\ ret[t] # "already"
            /\ ENABLED CallerStep(t)
            /\ pc[t] = "start_unlock" =>
                  /\ ret[t] = "ok"
                  /\ active
                  /\ stopCh >= snap.nextCh
                  /\ stoppedCh >= snap.nextCh
                  /\ stopCh # stoppedCh
                  /\ stopCh \notin closed
                  /\ launched = snap.launched + 1

\* C3 witness: the Start() of a second cycle is about to return success while
\* the loop it launched has not executed a statement yet.
C3_Witness ==
    \E t \in Threads :
        /\ pc[t] = "start_unlock"
        /\ ret[t] = "ok"
        /\ launched >= 2
        /\ lpc[launched] = "enter"

\* C4: a Start() that finds the controller Running only returns the
\* already-running error: active, both channels, the allocation counter and
\* the number of launched loops are as it found them, and it has not raised
\* the cancellation signal of the run.
C4_StartWhileRunning ==
    \A t \in Threads :
        (pc[t] \in StartPcs /\ snap.active) =>
            /\ pc[t] \in {"start_check", "start_unlock"}
            /\ pc[t] = "start_unlock" => ret[t] = "already"
            /\ active
            /\ stopCh = snap.stopCh
            /\ stoppedCh = snap.stoppedCh
            /\ nextCh = snap.nextCh
            /\ launched = snap.launched
            /\ (stopCh \in closed) <=> (stopCh \in snap.closed)

\* C4 witness: Start() is about to return already-running while the loop of
\* the current run is alive.
C4_Witness ==
    \E t \in Threads :
        /\ pc[t] = "start_unlock"
        /\ ret[t] = "already"
        /\ \E r \in Runs : Alive(r)

\* C5: a Stop() that finds the controller Idle closes nothing, never reaches
\* the wait, leaves active FALSE and both channels as they were, and returns;
\* so every further Stop() after the first leaves the same Idle controller.
C5_StopWhileIdle ==
    \A t \in Threads :
        (pc[t] \in StopPcs /\ ~snap.active) =>
            /\ pc[t] \in {"stop_check", "stop_unlock"}
            /\ pc[t] = "stop_unlock" => ret[t] = "noop"
            /\ ENABLED CallerStep(t)
            /\ ~active
            /\ closed = snap.closed
            /\ stopCh = snap.stopCh
            /\ stoppedCh = snap.stoppedCh

\* C5 witness: after a Start() and a Stop() that has returned, a further
\* Stop() is about to return as a no-op.
C5_Witness ==
    \E t \in Threads :
        /\ pc[t] = "stop_unlock"
        /\ ret[t] = "noop"
        /\ launched >= 1
        /\ window = "closed"

\* C6: under fairness every Stop() that found the controller Running gets to
\* its return with active FALSE, and active is only ever cleared once the
\* completion channel has been closed.
C6_StopReturns ==
    /\ \A t \in Threads :
          (pc[t] = "stop_close") ~> (pc[t] = "stop_unlock" /\ ret[t] = "stopped" /\ ~active)
    /\ [][(active /\ ~active') => stoppedCh \in closed]_vars

\* C6 witness: Stop() is blocked on the completion channel while the loop is
\* in the middle of an injection.
C6_Witness ==
    \E t \in Threads :
        /\ pc[t] = "stop_wait"
        /\ \E r \in Runs : lpc[r] = "inject"

\* C7: at most one loop goroutine is alive at any time; at most one Start()
\* has returned success since the last Stop() return, a Start() returning
\* success is the first since then, and one returning already-running lost
\* to a Start() that had returned success.
C7_OneActivityOneWinner ==
    /\ Cardinality({r \in Runs : Alive(r)}) <= 1
    /\ wins <= 1
    /\ \A t \in Threads :
          pc[t] = "start_unlock" =>
              /\ ret[t] = "ok" => wins = 0
              /\ ret[t] = "already" => wins = 1

\* C7 witness: a second caller's Start() is about to return already-running
\* after another Start() won, while the loop is alive.
C7_Witness ==
    \E t \in Threads :
        /\ pc[t] = "start_unlock"
        /\ ret[t] = "already"
        /\ wins = 1
        /\ \E r \in Runs : Alive(r)
        /\ window = "open"

\* C8 (as claimed): with MinLen > MaxLen no Start() succeeds and no loop is
\* ever launched.
C8_BadConfigNeverRuns ==
    cfg.MinLen > cfg.MaxLen =>
        /\ launched = 0
        /\ \A t \in Threads : ret[t] # "ok"

\* C9 (as claimed): the records on the wire, genuine and filler, carry the
\* consecutive sequence values 0, 1, 2, ... in wire order.
C9_NoncesConsecutive ==
    \A i \in 1..Len(wire) : wire[i].nonce = i - 1

\* C10: whenever no loop goroutine is inside injectOne, the sequence counter
\* minus the genuine writes equals the number of filler records emitted: a
\* successful injectOne added exactly one, a failed one nothing.
C10_SeqCountsFillers ==
    Quiescent => seq - NumKind("genuine") = NumKind("filler")

\* C10 witness: with no genuine write, a run has emitted a filler record and
\* then ended on a failed injectOne (its cancellation channel is still open).
C10_Witness ==
    \E r \in Runs :
        /\ lpc[r] = "done"
        /\ runChans[r][1] \notin closed
        /\ NumKind("filler") >= 1
        /\ NumKind("genuine") = 0

\* filler records put on the wire since the Stop() in progress closed stopCh
LateFillers ==
    Cardinality({i \in (cancelAt.wireLen + 1)..Len(wire) : wire[i].kind = "filler"})

\* a Stop() that found the controller Running is about to return
StopAboutToReturn == \E t \in Threads : pc[t] = "stop_unlock" /\ ret[t] = "stopped"

\* C14: when Stop() closes stopCh while the loop is still waiting out a
\* positive InitialDelay, no injectOne is entered from then on, no record is
\* put on the wire, the sequence counter keeps its value, and (under
\* fairness) that Stop() gets to its return.
C14_CancelDuringDelay ==
    /\ [](cancelAt.phase = "delay" =>
            /\ \A r \in Runs : lpc[r] \notin InjectPcs
            /\ Len(wire) = cancelAt.wireLen
            /\ seq = cancelAt.seq)
    /\ (cancelAt.phase = "delay") ~> StopAboutToReturn

\* C14 witness: the delay was cancelled on a connection that could have
\* taken a record, the loop has returned and Stop() is about to return.
C14_Witness ==
    /\ cancelAt.phase = "delay"
    /\ StopAboutToReturn
    /\ aeadPresent
    /\ cfg.MinLen <= cfg.MaxLen
    /\ lpc[launched] = "done"

\* C17: once the cancellation channel of a run is closed its loop enters no
\* injectOne, and between Stop() closing stopCh and Stop() returning at most
\* one filler record reaches the wire, and only when the loop was inside
\* injectOne at the moment of the close.
C17_NoNewInjectionAfterCancel ==
    [][/\ \A r \in Runs :
             (runChans[r][1] \in closed /\ lpc'[r] = "aead") => lpc[r] = "aead"
       /\ (cancelAt.phase # "none")' =>
             /\ LateFillers' <= 1
             /\ LateFillers' = 1 => (cancelAt.phase = "inject")'
      ]_vars

\* C17 witness: the injection that was in flight at the close has put its
\* record on the wire and Stop() is about to return.
C17_Witness ==
    /\ cancelAt.phase = "inject"
    /\ LateFillers = 1
    /\ StopAboutToReturn

\* C18: every injectOne that ends otherwise than after its
\* FillGhostIncWriteSeq sends the loop to its return; a loop on its way out
\* never enters injectOne again; records are put on the wire only from inside
\* an injectOne; and Stop() has nothing but completion to report.
C18_NoRetryAfterFailure ==
    [][/\ \A r \in Runs :
             /\ (lpc[r] \in InjectPcs /\ lpc'[r] \notin InjectPcs) =>
                    (lpc[r] = "inc" \/ lpc'[r] = "exit")
             /\ lpc[r] \in {"exit", "done"} => lpc'[r] \in {"exit", "done"}
       /\ FillerEmitted => \E r \in Runs : lpc[r] = "inject" /\ lpc'[r] = "inc"
       /\ \A t \in Threads : pc'[t] = "stop_unlock" => ret'[t] \in {"noop", "stopped"}
      ]_vars

\* C18 witness: a run on a connection without cipher has ended by itself
\* (its cancellation channel is still open) and Stop() then finds it.
C18_Witness ==
    \E r \in Runs :
        /\ lpc[r] = "done"
        /\ ~aeadPresent
        /\ runChans[r][1] \notin closed
        /\ \E t \in Threads : pc[t] = "stop_close"

\* the channels runs 1..launched were given, in order
RunChanSeq == [i \in 1..(2 * launched) |-> runChans[(i + 1) \div 2][2 - (i % 2)]]

\* C19: the channels of the launched runs are pairwise distinct and none is
\* one the constructor made; a loop that has returned has closed its
\* completion channel, a loop that has not reached its return has not; and
\* no closed channel is ever closed again (which would panic).
C19_SignalsFiredOnce ==
    /\ \A i, j \in DOMAIN RunChanSeq :
          /\ RunChanSeq[i] \notin {NoChan, 1, 2}
          /\ i # j => RunChanSeq[i] # RunChanSeq[j]
    /\ \A r \in Runs :
          /\ lpc[r] = "done" => runChans[r][2] \in closed
          /\ (Alive(r) /\ lpc[r] # "exit") => runChans[r][2] \notin closed
          /\ lpc[r] = "exit" => ldefer[r] \notin closed
    /\ ~panicked

\* C19 witness: the second run has been cancelled during its interval wait
\* and has closed its completion channel.
C19_Witness ==
    /\ launched >= 2
    /\ lpc[2] = "done"
    /\ cancelAt.phase = "other"
    /\ cfg.Interval > 0
    /\ runChans[2][1] \in closed
    /\ runChans[2][2] \in closed
    /\ runChans[1][2] \in closed

\* C20: while a loop goroutine is alive, fg.stopCh and fg.stoppedCh are the
\* channels its own Start() allocated, and the channel its deferred close
\* captured is its own completion channel.
C20_LoopSeesOwnChannels ==
    \A r \in Runs :
        Alive(r) =>
            /\ stopCh = runChans[r][1]
            /\ stoppedCh = runChans[r][2]
            /\ ldefer[r] \in {NoChan, runChans[r][2]}
            /\ lpc[r] \notin {"enter"} => ldefer[r] = runChans[r][2]

\* C20 witness: the loop of a second run selects on the cancellation channel
\* of its own run while the first run's channels are closed.
C20_Witness ==
    /\ launched >= 2
    /\ lpc[2] = "initwait"
    /\ stopCh = runChans[2][1]
    /\ stopCh \in closed
    /\ runChans[1][1] \in closed

\* loop r hands its record to the transport and the transport takes it
Emits(r) == lpc[r] = "inject" /\ lpc'[r] = "inc"

\* C11: whenever a filler record is emitted, opening its ciphertext with the
\* nonce the sender used and the transmitted 5-byte header as additional data
\* succeeds and yields the L filler bytes followed by the byte 0x17.
C11_PeerDecrypts ==
    [][\A r \in Runs :
          Emits(r) =>
             LET rec == Record(r)
                 res == Open(lseq[r], rec.ciphertext, rec.header)
             IN /\ res.ok
                /\ res.plain = [len |-> lL[r] + 1, last |-> 23]
      ]_vars

\* C12: whenever a filler record is emitted, the length declared in header
\* bytes 3..4 is the byte length of the ciphertext after the header.
C12_HeaderLengthExact ==
    [][\A r \in Runs :
          Emits(r) => DeclaredLen(Record(r).header) = Record(r).ciphertext.len
      ]_vars

\* C13: when the loop is about to sample a length under 0 <= MinLen <= MaxLen,
\* every value cryptoRandInt can return without error lies in
\* MinLen..MaxLen, every value of MinLen..MaxLen is a possible result, and
\* with MinLen = MaxLen the only outcome is that value.
C13_LengthInRange ==
    \A r \in Runs :
        (lpc[r] = "len" /\ 0 <= cfg.MinLen /\ cfg.MinLen <= cfg.MaxLen) =>
            LET res == cryptoRandInt(cfg.MinLen, cfg.MaxLen)
            IN /\ \A o \in res :
                     o.err = "nil" => (cfg.MinLen <= o.val /\ o.val <= cfg.MaxLen)
               /\ \A v \in {cfg.MinLen, cfg.MaxLen} : [val |-> v, err |-> "nil"] \in res
               /\ Cardinality({o \in res : o.err = "nil"}) = cfg.MaxLen - cfg.MinLen + 1
               /\ cfg.MinLen = cfg.MaxLen => res = {[val |-> cfg.MinLen, err |-> "nil"]}

\* C15: the process never panics, whatever the configuration and the
\* session state; a run that fails ends with its loop returned and its
\* completion channel closed.
C15_NeverPanics ==
    /\ ~panicked
    /\ \A r \in Runs : lpc[r] = "done" => runChans[r][2] \in closed

\* C16: whenever a filler record is emitted, the 5 header bytes given to
\* Seal as additional data are the 5 header bytes of the transmitted record.
C16_AadIsTransmittedHeader ==
    [][\A r \in Runs :
          Emits(r) => Record(r).ciphertext.aad = Record(r).header
      ]_vars

====
